---- MODULE Spec2Model ----
\* q6voiced: ModemManager call-state signals drive the lifetime of the voice
\* Runtime (two PCM streams and two pw-loopback helpers) and the hook script.
\* Model of src/src/main.cpp.
EXTENDS Integers, Sequences, FiniteSets, TLC

\* ---------------------------------------------------------------- bounds
\* number of bus messages the event loop handles in one run
MaxEvents == 4
\* range of small wire values fed to the classifier
MaxWire == 40

\* ------------------------------------------------------- program constants
MM_CALL_STATE_UNKNOWN == 0
MM_CALL_STATE_DIALING == 1
MM_CALL_STATE_RINGING_OUT == 2
MM_CALL_STATE_RINGING_IN == 3
MM_CALL_STATE_ACTIVE == 4
MM_CALL_STATE_HELD == 5
MM_CALL_STATE_WAITING == 6
MM_CALL_STATE_TERMINATED == 7
\* main() requires argc == 4 (program name and three positional arguments)
RequiredArgc == 4
\* one dbus_uint32_t is held as two 16-bit halves <<high, low>>
Half == 65536
HalfTop == 32768
Int32Max == 2147483647

\* ------------------------------------------------------------- data model
\* An INT32 read from the message body is stored into a dbus_uint32_t:
\* the value modulo 2^32, kept as <<high half, low half>>.
ToUint32(v) ==
    IF v >= 0
    THEN <<v \div Half, v % Half>>
    ELSE LET w == (v + Int32Max) + 1
         IN  <<(w \div Half) + HalfTop, w % Half>>

\* variant: the RingingIn label in place of the RingingOut one
is_mm_state_active_ringing_in(state) ==
    IF state = <<0, MM_CALL_STATE_DIALING>> THEN TRUE
    ELSE IF state = <<0, MM_CALL_STATE_RINGING_IN>> THEN TRUE
    ELSE IF state = <<0, MM_CALL_STATE_ACTIVE>> THEN TRUE
    ELSE FALSE

\* the switch of is_mm_state_active
is_mm_state_active(state) ==
    IF state = <<0, MM_CALL_STATE_DIALING>> THEN TRUE
    ELSE IF state = <<0, MM_CALL_STATE_RINGING_OUT>> THEN TRUE
    ELSE IF state = <<0, MM_CALL_STATE_ACTIVE>> THEN TRUE
    ELSE FALSE

\* signed 32-bit values a StateChanged body carries in the event-loop model
WireStates ==
    { MM_CALL_STATE_UNKNOWN, MM_CALL_STATE_DIALING, MM_CALL_STATE_RINGING_OUT,
      MM_CALL_STATE_RINGING_IN, MM_CALL_STATE_ACTIVE, MM_CALL_STATE_HELD,
      MM_CALL_STATE_WAITING, MM_CALL_STATE_TERMINATED, -1, Half + 1 }

\* values of a third body argument (ModemManager sends a reason after the
\* two states)
Reasons == { 0 }

\* bodies of a StateChanged signal: zero to three integer arguments
Bodies ==
    { <<>> } \cup { <<o>> : o \in WireStates }
             \cup { <<o, n>> : o \in WireStates, n \in WireStates }
             \cup { <<o, n, r>> : o \in WireStates, n \in WireStates,
                                  r \in Reasons }

\* dbus_message_get_args(INT32, INT32, INVALID): reads the first two arguments
\* and fails when one is missing; arguments after them are not looked at
dbus_message_get_args(body) == Len(body) >= 2

Interfaces == { "call", "modem_voice", "other" }
Members == { "StateChanged", "CallAdded", "Other" }

\* messages the bus can deliver; only StateChanged bodies are ever inspected
Messages ==
    { [iface |-> f, member |-> m, body |-> b] :
        f \in Interfaces, m \in Members, b \in Bodies }

IsStateChanged(m) == m.iface = "call" /\ m.member = "StateChanged"
\* variant: CallAdded looked for on the call interface
IsCallAdded_call_iface(m) == m.iface = "call" /\ m.member = "CallAdded"
\* variant: CallAdded accepted from any interface
IsCallAdded_any_iface(m) == m.member = "CallAdded"
IsCallAdded(m) == m.iface = "modem_voice" /\ m.member = "CallAdded"

DeliveredMessages ==
    { m \in Messages : IsStateChanged(m) \/ m.body = <<>> }

NoMessage == [iface |-> "none", member |-> "none", body |-> <<>>]

\* values of argc the daemon is started with
ArgCounts == 1 .. 5

VARIABLES
    pc,         \* position of the single thread
    argc,       \* main's argc
    exit_status, \* -1 while running, else the value main returned
    usage,      \* usage message printed
    conn,       \* bus connection obtained and matches registered
    msg,        \* message being handled (last popped)
    old_state,  \* handle_call_state_changed local
    new_state,  \* handle_call_state_changed local
    runtime,    \* context.runtime holds a Runtime
    rt,         \* Runtime owned by create_runtime / delete_runtime
    pcms,       \* device streams: "closed", "open", "prepared"
    procs,      \* pw-loopback helpers: "idle", "running", "joined"
    i,          \* loop index in create_runtime / delete_runtime
    action,     \* action keyword of the hook run in progress
    hooks,      \* hook scripts started since startup, in order
    oplog,      \* external operations performed for the current message
    events,     \* messages popped so far
    created,    \* Runtimes stored into the context
    destroyed,  \* Runtimes destroyed
    chained,    \* every StateChanged so far continued the previous one
    scen,       \* progress along the scenarios of the test plan
    had_runtime, \* context.runtime held a Runtime when msg was popped
    wire,       \* classifier on its own: the INT32 on the wire
    result      \* classifier on its own: "none", "true", "false"

vars == << pc, argc, exit_status, usage, conn, msg, old_state, new_state,
           runtime, rt, pcms, procs, i, action, hooks, oplog, events,
           created, destroyed, chained, scen, had_runtime, wire, result >>

\* ------------------------------------------------------------ test-plan ghosts
\* Scenario A: Unknown -> Dialing -> Active -> Terminated
ScenarioA ==
    << <<MM_CALL_STATE_UNKNOWN, MM_CALL_STATE_DIALING>>,
       <<MM_CALL_STATE_DIALING, MM_CALL_STATE_ACTIVE>>,
       <<MM_CALL_STATE_ACTIVE, MM_CALL_STATE_TERMINATED>> >>

\* Scenario B: Unknown -> RingingIn -> Active -> Held -> Terminated
ScenarioB ==
    << <<MM_CALL_STATE_UNKNOWN, MM_CALL_STATE_RINGING_IN>>,
       <<MM_CALL_STATE_RINGING_IN, MM_CALL_STATE_ACTIVE>>,
       <<MM_CALL_STATE_ACTIVE, MM_CALL_STATE_HELD>>,
       <<MM_CALL_STATE_HELD, MM_CALL_STATE_TERMINATED>> >>

\* number of events of scenario s delivered so far when the run consists of
\* exactly a prefix of s, -1 otherwise
Follow(s, k, m) ==
    IF k >= 0 /\ k < Len(s) /\ IsStateChanged(m) /\ m.body = s[k + 1]
    THEN k + 1
    ELSE -1

\* "start" before the first StateChanged; "yes" while each event's old state is
\* the previous event's new state (the first one's being not active)
Chain(c, prev, o) ==
    IF c = "start" THEN (IF is_mm_state_active(o) THEN "no" ELSE "yes")
    ELSE IF c = "yes" /\ o = prev THEN "yes"
    ELSE "no"

\* ------------------------------------------------------------------ ensure
\* variant: a failed ensure() only leaves the handler
Bail_returns == pc' = "loop"

\* A failed ensure()/unwrap() is fatal: the daemon stops where it is.
Bail == pc' = "aborted"

\* --------------------------------------------------------------- main()
Init ==
    /\ pc = "main"
    /\ argc \in ArgCounts
    /\ exit_status = -1
    /\ usage = FALSE
    /\ conn = FALSE
    /\ msg = NoMessage
    /\ old_state = <<0, 0>>
    /\ new_state = <<0, 0>>
    /\ runtime = FALSE
    /\ rt = "none"
    /\ pcms = [k \in 0 .. 1 |-> "closed"]
    /\ procs = [k \in 0 .. 1 |-> "idle"]
    /\ i = 0
    /\ action = "none"
    /\ hooks = <<>>
    /\ oplog = <<>>
    /\ events = 0
    /\ created = 0
    /\ destroyed = 0
    /\ chained = "start"
    /\ scen = [A |-> 0, B |-> 0]
    /\ had_runtime = FALSE
    /\ wire = 0
    /\ result = "none"

\* variant: the argument count compared with the number of positional arguments
main_argc_positional ==
    /\ pc = "main"
    /\ \/ /\ argc # RequiredArgc - 1
          /\ usage' = TRUE
          /\ exit_status' = 1
          /\ pc' = "exited"
          /\ UNCHANGED conn
       \/ /\ argc = RequiredArgc - 1
          /\ conn' = TRUE
          /\ pc' = "loop"
          /\ UNCHANGED << usage, exit_status >>
       \/ /\ argc = RequiredArgc - 1
          /\ Bail
          /\ UNCHANGED << usage, exit_status, conn >>
    /\ UNCHANGED << argc, msg, old_state, new_state, runtime, rt, pcms, procs,
                    i, action, hooks, oplog, events, created, destroyed,
                    chained, scen, wire, result >>
    /\ UNCHANGED had_runtime

\* argument check, argument parsing, bus connection and match registration
main ==
    /\ pc = "main"
    /\ \/ /\ argc # RequiredArgc
          /\ usage' = TRUE
          /\ exit_status' = 1
          /\ pc' = "exited"
          /\ UNCHANGED conn
       \/ /\ argc = RequiredArgc
          /\ conn' = TRUE
          /\ pc' = "loop"
          /\ UNCHANGED << usage, exit_status >>
       \/ /\ argc = RequiredArgc
          /\ Bail
          /\ UNCHANGED << usage, exit_status, conn >>
    /\ UNCHANGED << argc, msg, old_state, new_state, runtime, rt, pcms, procs,
                    i, action, hooks, oplog, events, created, destroyed,
                    chained, scen, wire, result >>
    /\ UNCHANGED had_runtime

\* dbus_connection_read_write returns FALSE: the loop ends, main returns 0
disconnect ==
    /\ pc = "loop"
    /\ pc' = "exited"
    /\ exit_status' = 0
    /\ UNCHANGED << argc, usage, conn, msg, old_state, new_state, runtime, rt,
                    pcms, procs, i, action, hooks, oplog, events, created,
                    destroyed, chained, scen, wire, result >>
    /\ UNCHANGED had_runtime

\* ------------------------------------------------ handle_call_state_changed
\* variant: the guard of the stop branch inverted
branch_stop_guard_inverted(o, n, has_runtime) ==
    IF o = n THEN "return"
    ELSE IF is_mm_state_active(n)
         THEN (IF has_runtime THEN "return" ELSE "start")
    ELSE IF is_mm_state_active(o) /\ ~is_mm_state_active(n)
         THEN (IF has_runtime THEN "return" ELSE "stop")
    ELSE "return"

\* variant: the start branch without its context.runtime guard
branch_start_unguarded(o, n, has_runtime) ==
    IF o = n THEN "return"
    ELSE IF is_mm_state_active(n) THEN "start"
    ELSE IF is_mm_state_active(o) /\ ~is_mm_state_active(n)
         THEN (IF ~has_runtime THEN "return" ELSE "stop")
    ELSE "return"

\* variant: without the old_state == new_state return
branch_without_same_check(o, n, has_runtime) ==
    IF is_mm_state_active(n)
    THEN (IF has_runtime THEN "return" ELSE "start")
    ELSE IF is_mm_state_active(o) /\ ~is_mm_state_active(n)
         THEN (IF ~has_runtime THEN "return" ELSE "stop")
    ELSE "return"

\* the decision of handle_call_state_changed once the two states are decoded:
\* "return", "start" (open a session) or "stop" (close it)
handle_call_state_changed_branch(o, n, has_runtime) ==
    IF o = n THEN "return"
    ELSE IF is_mm_state_active(n)
         THEN (IF has_runtime THEN "return" ELSE "start")
    ELSE IF is_mm_state_active(o) /\ ~is_mm_state_active(n)
         THEN (IF ~has_runtime THEN "return" ELSE "stop")
    ELSE "return"

\* variant: the result of dbus_message_get_args is not tested
handle_call_state_changed_unchecked(m) ==
    \/ /\ ~dbus_message_get_args(m.body)
       /\ old_state' = <<0, 0>>
       /\ new_state' = <<0, 0>>
       /\ pc' = "loop"
       /\ UNCHANGED << runtime, rt, i, action, chained >>
    \/ /\ dbus_message_get_args(m.body)
       /\ LET o == ToUint32(m.body[1])
              n == ToUint32(m.body[2])
              b == handle_call_state_changed_branch(o, n, runtime)
          IN  /\ old_state' = o
              /\ new_state' = n
              /\ chained' = Chain(chained, new_state, o)
              /\ \/ /\ b = "return"
                    /\ pc' = "loop"
                    /\ UNCHANGED << runtime, rt, i, action >>
                 \/ /\ b = "start"
                    /\ pc' = "hook_start"
                    /\ action' = "voice-start"
                    /\ UNCHANGED << runtime, rt, i >>
                 \/ /\ b = "stop"
                    /\ runtime' = FALSE
                    /\ rt' = "deleting"
                    /\ i' = 0
                    /\ pc' = "pw_join"
                    /\ UNCHANGED action

\* decode the two states, then act on the branch taken
handle_call_state_changed(m) ==
    \/ /\ ~dbus_message_get_args(m.body)
       /\ Bail
       /\ UNCHANGED << old_state, new_state, runtime, rt, i, action, chained >>
    \/ /\ dbus_message_get_args(m.body)
       /\ LET o == ToUint32(m.body[1])
              n == ToUint32(m.body[2])
              b == handle_call_state_changed_branch(o, n, runtime)
          IN  /\ old_state' = o
              /\ new_state' = n
              /\ chained' = Chain(chained, new_state, o)
              /\ \/ /\ b = "return"
                    /\ pc' = "loop"
                    /\ UNCHANGED << runtime, rt, i, action >>
                 \/ /\ b = "start"
                    /\ pc' = "hook_start"
                    /\ action' = "voice-start"
                    /\ UNCHANGED << runtime, rt, i >>
                 \/ /\ b = "stop"
                    /\ runtime' = FALSE
                    /\ rt' = "deleting"
                    /\ i' = 0
                    /\ pc' = "pw_join"
                    /\ UNCHANGED action

\* ------------------------------------------------------------ handle_message
handle_message ==
    /\ pc = "loop"
    /\ events < MaxEvents
    /\ \E m \in DeliveredMessages :
        /\ msg' = m
        /\ events' = events + 1
        /\ oplog' = <<>>
        /\ had_runtime' = runtime
        /\ scen' = [A |-> Follow(ScenarioA, scen.A, m),
                    B |-> Follow(ScenarioB, scen.B, m)]
        /\ \/ /\ IsStateChanged(m)
              /\ handle_call_state_changed(m)
           \/ /\ IsCallAdded(m)
              /\ pc' = "hook_start"
              /\ action' = "call-added"
              /\ UNCHANGED << old_state, new_state, runtime, rt, i, chained >>
           \/ /\ ~IsStateChanged(m)
              /\ ~IsCallAdded(m)
              /\ pc' = "loop"
              /\ UNCHANGED << old_state, new_state, runtime, rt, i, action,
                              chained >>
    /\ UNCHANGED << argc, exit_status, usage, conn, pcms, procs, hooks,
                    created, destroyed, wire, result >>

\* ---------------------------------------------------------------- run_script
\* what follows a hook run that returned true
AfterHook(a) == IF a = "voice-start" THEN "pcm_open" ELSE "loop"

\* variant: the hook script is started and not waited for
run_script_start_detached ==
    /\ pc = "hook_start"
    /\ \/ /\ hooks' = Append(hooks, action)
          /\ oplog' = Append(oplog, action)
          /\ pc' = AfterHook(action)
          /\ action' = "none"
          /\ IF AfterHook(action) = "pcm_open"
             THEN rt' = "building" /\ i' = 0
             ELSE UNCHANGED << rt, i >>
       \/ /\ Bail
          /\ UNCHANGED << hooks, oplog, action, rt, i >>
    /\ UNCHANGED << argc, exit_status, usage, conn, msg, old_state, new_state,
                    runtime, pcms, procs, events, created, destroyed, chained,
                    scen, wire, result >>
    /\ UNCHANGED had_runtime

\* proc.start of the hook script
run_script_start ==
    /\ pc = "hook_start"
    /\ \/ /\ hooks' = Append(hooks, action)
          /\ oplog' = Append(oplog, action)
          /\ pc' = "hook_join"
       \/ /\ Bail
          /\ UNCHANGED << hooks, oplog >>
    /\ UNCHANGED << argc, exit_status, usage, conn, msg, old_state, new_state,
                    runtime, rt, pcms, procs, i, action, events, created,
                    destroyed, chained, scen, wire, result >>
    /\ UNCHANGED had_runtime

\* proc.join of the hook script; on success the caller goes on
run_script_join ==
    /\ pc = "hook_join"
    /\ \/ /\ oplog' = Append(oplog, "hook_exit")
          /\ pc' = AfterHook(action)
          /\ action' = "none"
          /\ IF AfterHook(action) = "pcm_open"
             THEN rt' = "building" /\ i' = 0
             ELSE UNCHANGED << rt, i >>
       \/ /\ Bail
          /\ UNCHANGED << oplog, action, rt, i >>
    /\ UNCHANGED << argc, exit_status, usage, conn, msg, old_state, new_state,
                    runtime, pcms, procs, hooks, events, created, destroyed,
                    chained, scen, wire, result >>
    /\ UNCHANGED had_runtime

\* ------------------------------------------------------------ create_runtime
\* variant: PCM_OUT opened first
PcmOpenOp_swapped(k) == IF k = 0 THEN "pcm_open_out" ELSE "pcm_open_in"
PcmOpenOp(k) == IF k = 0 THEN "pcm_open_in" ELSE "pcm_open_out"
PcmCloseOp(k) == IF k = 0 THEN "pcm_close_in" ELSE "pcm_close_out"
PwStartOp(k) == IF k = 0 THEN "pw_start_sink" ELSE "pw_start_source"
PwJoinOp(k) == IF k = 0 THEN "pw_join_sink" ELSE "pw_join_source"

\* pcm_open and the pcm_is_ready check: i = 0 capture, i = 1 playback
create_runtime_pcm_open ==
    /\ pc = "pcm_open"
    /\ oplog' = Append(oplog, PcmOpenOp(i))
    /\ \/ /\ pcms' = [pcms EXCEPT ![i] = "open"]
          /\ pc' = "pcm_prepare"
       \/ /\ Bail
          /\ UNCHANGED pcms
    /\ UNCHANGED << argc, exit_status, usage, conn, msg, old_state, new_state,
                    runtime, rt, procs, i, action, hooks, events, created,
                    destroyed, chained, scen, wire, result >>
    /\ UNCHANGED had_runtime

\* variant: the stream loop ends after the capture stream
create_runtime_pcm_prepare_once ==
    /\ pc = "pcm_prepare"
    /\ \/ /\ pcms' = [pcms EXCEPT ![i] = "prepared"]
          /\ oplog' = Append(oplog, "pcm_prepare")
          /\ i' = 0
          /\ pc' = "pw_start"
       \/ /\ Bail
          /\ UNCHANGED << pcms, oplog, i >>
    /\ UNCHANGED << argc, exit_status, usage, conn, msg, old_state, new_state,
                    runtime, rt, procs, action, hooks, events, created,
                    destroyed, chained, scen, wire, result >>
    /\ UNCHANGED had_runtime

\* pcm_prepare and the move of the stream into rt->pcms[i]
create_runtime_pcm_prepare ==
    /\ pc = "pcm_prepare"
    /\ \/ /\ pcms' = [pcms EXCEPT ![i] = "prepared"]
          /\ oplog' = Append(oplog, "pcm_prepare")
          /\ IF i = 0
             THEN i' = 1 /\ pc' = "pcm_open"
             ELSE i' = 0 /\ pc' = "pw_start"
       \/ /\ Bail
          /\ UNCHANGED << pcms, oplog, i >>
    /\ UNCHANGED << argc, exit_status, usage, conn, msg, old_state, new_state,
                    runtime, rt, procs, action, hooks, events, created,
                    destroyed, chained, scen, wire, result >>
    /\ UNCHANGED had_runtime

\* variant: the Runtime is stored in the context before its helpers are started
create_runtime_pw_start_in_context ==
    /\ pc = "pw_start"
    /\ \/ /\ procs' = [procs EXCEPT ![i] = "running"]
          /\ oplog' = Append(oplog, PwStartOp(i))
          /\ runtime' = TRUE
          /\ IF i = 0
             THEN /\ i' = 1
                  /\ UNCHANGED << pc, rt, created >>
             ELSE /\ i' = 0
                  /\ rt' = "none"
                  /\ created' = created + 1
                  /\ pc' = "loop"
       \/ /\ Bail
          /\ UNCHANGED << procs, oplog, i, runtime, rt, created >>
    /\ UNCHANGED << argc, exit_status, usage, conn, msg, old_state, new_state,
                    pcms, action, hooks, events, destroyed, chained, scen,
                    wire, result >>
    /\ UNCHANGED had_runtime

\* proc.start of pw-loopback: i = 0 sink, i = 1 source; after the second one
\* create_runtime returns rt and the handler stores it in context.runtime
create_runtime_pw_start ==
    /\ pc = "pw_start"
    /\ \/ /\ procs' = [procs EXCEPT ![i] = "running"]
          /\ oplog' = Append(oplog, PwStartOp(i))
          /\ IF i = 0
             THEN /\ i' = 1
                  /\ UNCHANGED << pc, runtime, rt, created >>
             ELSE /\ i' = 0
                  /\ runtime' = TRUE
                  /\ rt' = "none"
                  /\ created' = created + 1
                  /\ pc' = "loop"
       \/ /\ Bail
          /\ UNCHANGED << procs, oplog, i, runtime, rt, created >>
    /\ UNCHANGED << argc, exit_status, usage, conn, msg, old_state, new_state,
                    pcms, action, hooks, events, destroyed, chained, scen,
                    wire, result >>
    /\ UNCHANGED had_runtime

\* ------------------------------------------------------------ delete_runtime
\* variant: only the first helper is joined
delete_runtime_join_first_only ==
    /\ pc = "pw_join"
    /\ \/ /\ procs' = [procs EXCEPT ![i] = "joined"]
          /\ oplog' = Append(oplog, PwJoinOp(i))
          /\ i' = 1
          /\ pc' = "pcm_close"
       \/ /\ Bail
          /\ UNCHANGED << procs, oplog, i >>
    /\ UNCHANGED << argc, exit_status, usage, conn, msg, old_state, new_state,
                    runtime, rt, pcms, action, hooks, events, created,
                    destroyed, chained, scen, wire, result >>
    /\ UNCHANGED had_runtime

\* proc.join(true) of each helper, in array order
delete_runtime_join ==
    /\ pc = "pw_join"
    /\ \/ /\ procs' = [procs EXCEPT ![i] = "joined"]
          /\ oplog' = Append(oplog, PwJoinOp(i))
          /\ IF i = 0
             THEN i' = 1 /\ UNCHANGED pc
             ELSE i' = 1 /\ pc' = "pcm_close"
       \/ /\ Bail
          /\ UNCHANGED << procs, oplog, i >>
    /\ UNCHANGED << argc, exit_status, usage, conn, msg, old_state, new_state,
                    runtime, rt, pcms, action, hooks, events, created,
                    destroyed, chained, scen, wire, result >>
    /\ UNCHANGED had_runtime

\* variant: the capture stream is not closed with the Runtime
delete_runtime_release_playback_only ==
    /\ pc = "pcm_close"
    /\ pcms' = [pcms EXCEPT ![1] = "closed"]
    /\ oplog' = Append(oplog, PcmCloseOp(1))
    /\ i' = 0
    /\ rt' = "none"
    /\ procs' = [k \in 0 .. 1 |-> "idle"]
    /\ destroyed' = destroyed + 1
    /\ pc' = "hook_start"
    /\ action' = "voice-stop"
    /\ UNCHANGED << argc, exit_status, usage, conn, msg, old_state, new_state,
                    runtime, hooks, events, created, chained, scen, wire,
                    result >>
    /\ UNCHANGED had_runtime

\* delete_runtime returned true: its parameter rt is destroyed, which closes
\* pcms[1], then pcms[0]; the handler then runs the "voice-stop" hook
delete_runtime_release ==
    /\ pc = "pcm_close"
    /\ pcms' = [pcms EXCEPT ![i] = "closed"]
    /\ oplog' = Append(oplog, PcmCloseOp(i))
    /\ IF i = 1
       THEN /\ i' = 0
            /\ UNCHANGED << pc, rt, procs, destroyed, action >>
       ELSE /\ i' = 0
            /\ rt' = "none"
            /\ procs' = [k \in 0 .. 1 |-> "idle"]
            /\ destroyed' = destroyed + 1
            /\ pc' = "hook_start"
            /\ action' = "voice-stop"
    /\ UNCHANGED << argc, exit_status, usage, conn, msg, old_state, new_state,
                    runtime, hooks, events, created, chained, scen, wire,
                    result >>
    /\ UNCHANGED had_runtime

\* ---------------------------------------------------------------- the daemon
Next ==
    \/ main
    \/ disconnect
    \/ handle_message
    \/ run_script_start
    \/ run_script_join
    \/ create_runtime_pcm_open
    \/ create_runtime_pcm_prepare
    \/ create_runtime_pw_start
    \/ delete_runtime_join
    \/ delete_runtime_release

Spec == Init /\ [][Next]_vars

\* ------------------------------------------------ the classifier on its own
\* INT32 values handed to the classifier
ClassifyInputs ==
    (-MaxWire .. MaxWire)
    \cup { Int32Max, -Int32Max, -Int32Max - 1, Half, Half + 1, Half + 2,
           Half + 4, 1 - Half, 4 - Half, 2 * Half + 4, Int32Max - 3 }

InitClassify ==
    /\ pc = "classify"
    /\ wire \in ClassifyInputs
    /\ new_state = ToUint32(wire)
    /\ result = "none"
    /\ argc = RequiredArgc
    /\ exit_status = -1
    /\ usage = FALSE
    /\ conn = TRUE
    /\ msg = NoMessage
    /\ old_state = <<0, 0>>
    /\ runtime = FALSE
    /\ rt = "none"
    /\ pcms = [k \in 0 .. 1 |-> "closed"]
    /\ procs = [k \in 0 .. 1 |-> "idle"]
    /\ i = 0
    /\ action = "none"
    /\ hooks = <<>>
    /\ oplog = <<>>
    /\ events = 0
    /\ created = 0
    /\ destroyed = 0
    /\ chained = "start"
    /\ scen = [A |-> 0, B |-> 0]
    /\ had_runtime = FALSE

classify ==
    /\ pc = "classify"
    /\ result' = IF is_mm_state_active(new_state) THEN "true" ELSE "false"
    /\ pc' = "classified"
    /\ UNCHANGED << argc, exit_status, usage, conn, msg, old_state, new_state,
                    runtime, rt, pcms, procs, i, action, hooks, oplog, events,
                    created, destroyed, chained, scen, wire >>
    /\ UNCHANGED had_runtime

NextClassify == classify

SpecClassify == InitClassify /\ [][NextClassify]_vars

\* ==================================================================== claims
\* the message last popped is a well-formed StateChanged signal
ParsedStateChanged(m) ==
    m.iface = "call" /\ m.member = "StateChanged" /\ Len(m.body) >= 2

\* the message last popped is the CallAdded signal of the modem-voice interface
VoiceCallAdded(m) == m.iface = "modem_voice" /\ m.member = "CallAdded"

\* the step pops the next message off the connection (it becomes msg')
Pops == pc = "loop" /\ events' = events + 1

IsPrefix(s, t) == Len(s) <= Len(t) /\ SubSeq(t, 1, Len(s)) = s

RuntimesAlive ==
    (IF runtime THEN 1 ELSE 0) + (IF rt # "none" THEN 1 ELSE 0)

\* operations of one session open, in order
StartOps ==
    << "voice-start", "hook_exit", "pcm_open_in", "pcm_prepare",
       "pcm_open_out", "pcm_prepare", "pw_start_sink", "pw_start_source" >>

\* operations of one session close, in order
StopOps ==
    << "pw_join_sink", "pw_join_source", "pcm_close_out", "pcm_close_in",
       "voice-stop", "hook_exit" >>

\* C1 (as stated): after every fully processed StateChanged event of any
\* stream, a Runtime is present iff the event's new state is active.
C1_AnyStream ==
    (pc = "loop" /\ ParsedStateChanged(msg))
        => (runtime <=> is_mm_state_active(new_state))

\* C1 (amended): the same, for streams in which every event's old state is the
\* previous event's new state and the first event's old state is not active.
C1_ChainedStream ==
    (pc = "loop" /\ ParsedStateChanged(msg) /\ chained = "yes")
        => (runtime <=> is_mm_state_active(new_state))

\* a chained stream that opened, closed and reopened a session
C1_Witness ==
    /\ pc = "loop"
    /\ ParsedStateChanged(msg)
    /\ chained = "yes"
    /\ runtime
    /\ created = 2
    /\ destroyed = 1

\* C2: at most one Runtime is alive; create_runtime is entered only when
\* context.runtime is empty and no Runtime is being destroyed, and
\* delete_runtime owns the only Runtime while it runs.
C2_SerialRuntime ==
    /\ RuntimesAlive <= 1
    /\ (pc \in {"hook_start", "hook_join"} /\ action = "voice-start")
          => (~runtime /\ rt = "none")
    /\ pc \in {"pcm_open", "pcm_prepare", "pw_start"}
          => (~runtime /\ rt = "building")
    /\ pc \in {"pw_join", "pcm_close"} => (~runtime /\ rt = "deleting")
    /\ created - destroyed = RuntimesAlive
          - (IF rt = "building" THEN 1 ELSE 0)

\* a second Runtime is being built after the first one was destroyed
C2_Witness == rt = "building" /\ created = 1 /\ destroyed = 1 /\ pc = "pw_start"

\* C3: an event with old # new and an active new state, arriving while no
\* Runtime exists, runs "voice-start" to its exit, then opens capture and
\* playback, then spawns the sink and the source helper, each exactly once.
C3_OpenOrder ==
    (ParsedStateChanged(msg) /\ old_state # new_state
        /\ is_mm_state_active(new_state) /\ ~had_runtime
        /\ pc \notin {"aborted", "exited"})
    => /\ IsPrefix(oplog, StartOps)
       /\ pc = "loop" => (oplog = StartOps /\ runtime)

C3_Witness ==
    /\ pc = "loop"
    /\ ParsedStateChanged(msg)
    /\ old_state # new_state
    /\ is_mm_state_active(new_state)
    /\ ~had_runtime
    /\ oplog = StartOps

\* C4: an event with an active old and an inactive new state, arriving while a
\* Runtime exists, joins both helpers, then releases both streams, then runs
\* "voice-stop", each exactly once.
C4_CloseOrder ==
    (ParsedStateChanged(msg) /\ is_mm_state_active(old_state)
        /\ ~is_mm_state_active(new_state) /\ had_runtime
        /\ pc \notin {"aborted", "exited"})
    => /\ IsPrefix(oplog, StopOps)
       /\ pc = "loop" => (oplog = StopOps /\ ~runtime /\ rt = "none")
       /\ (pc \in {"hook_start", "hook_join"})
             => (procs = [k \in 0 .. 1 |-> "idle"]
                 /\ pcms = [k \in 0 .. 1 |-> "closed"])

C4_Witness ==
    /\ pc = "loop"
    /\ ParsedStateChanged(msg)
    /\ is_mm_state_active(old_state)
    /\ ~is_mm_state_active(new_state)
    /\ had_runtime
    /\ oplog = StopOps

\* C5: a StateChanged event with old = new runs no hook and leaves the Runtime,
\* its streams and its helpers as they were, whatever the context.
C5_SameState ==
    [][ (Pops /\ ParsedStateChanged(msg') /\ msg'.body[1] = msg'.body[2])
        => (pc' = "loop" /\ oplog' = <<>>
            /\ UNCHANGED << runtime, rt, pcms, procs, hooks, created,
                            destroyed >>) ]_vars

\* an active -> same-active event was handled with a Runtime present
C5_Witness ==
    /\ pc = "loop"
    /\ ParsedStateChanged(msg)
    /\ msg.body[1] = msg.body[2]
    /\ is_mm_state_active(new_state)
    /\ had_runtime

\* C6: with a Runtime present, a StateChanged event whose new state is active
\* creates nothing, runs no hook and leaves the Runtime as it was.
C6_IdempotentOpen ==
    [][ (/\ Pops
         /\ ParsedStateChanged(msg')
         /\ runtime
         /\ is_mm_state_active(ToUint32(msg'.body[2])))
        => (pc' = "loop" /\ oplog' = <<>>
            /\ UNCHANGED << runtime, rt, pcms, procs, hooks, created,
                            destroyed >>) ]_vars

\* an active -> other-active event was handled with a Runtime present
C6_Witness ==
    /\ pc = "loop"
    /\ ParsedStateChanged(msg)
    /\ old_state # new_state
    /\ is_mm_state_active(old_state)
    /\ is_mm_state_active(new_state)
    /\ had_runtime
    /\ runtime
    /\ created = 1

\* C7: a CallAdded event of the modem-voice interface runs the "call-added"
\* hook exactly once and no step of its handling changes the Runtime.
C7_CallAdded ==
    /\ [](VoiceCallAdded(msg) /\ pc \notin {"aborted", "exited"}
            => /\ IsPrefix(oplog, <<"call-added", "hook_exit">>)
               /\ pc = "loop" => oplog = <<"call-added", "hook_exit">>
               /\ runtime = had_runtime)
    /\ [][ VoiceCallAdded(msg')
            => UNCHANGED << runtime, rt, pcms, procs, created, destroyed >>
       ]_vars

\* CallAdded was handled while a session was open
C7_Witness ==
    /\ pc = "loop"
    /\ VoiceCallAdded(msg)
    /\ runtime
    /\ oplog = <<"call-added", "hook_exit">>

\* C8: the classifier answers for every 32-bit value, true exactly for the wire
\* values 1 (Dialing), 2 (RingingOut) and 4 (Active).
C8_Classifier ==
    /\ pc = "classified" => result \in {"true", "false"}
    /\ result # "none" => (result = "true" <=> wire \in {1, 2, 4})

\* a negative wire value, held as an unsigned one, was classified
C8_Witness == pc = "classified" /\ wire < 0 /\ result = "false"

\* C9: Unknown->Dialing, Dialing->Active, Active->Terminated, all steps
\* succeeding, run the hooks [voice-start, voice-stop] and create and destroy
\* the Runtime once each.
C9_ScenarioA ==
    (scen.A = Len(ScenarioA) /\ pc = "loop")
    => /\ hooks = <<"voice-start", "voice-stop">>
       /\ created = 1
       /\ destroyed = 1
       /\ ~runtime

C9_Witness == scen.A = Len(ScenarioA) /\ pc = "loop" /\ destroyed = 1

\* C10: Unknown->RingingIn, RingingIn->Active, Active->Held, Held->Terminated,
\* all steps succeeding: the first and the last event do nothing, the second
\* creates the Runtime after "voice-start", the third destroys it before
\* "voice-stop".
C10_ScenarioB ==
    pc = "loop" =>
       /\ scen.B = 1 => (hooks = <<>> /\ oplog = <<>> /\ created = 0)
       /\ scen.B = 2 => (hooks = <<"voice-start">> /\ runtime /\ created = 1
                         /\ destroyed = 0)
       /\ scen.B = 3 => (hooks = <<"voice-start", "voice-stop">> /\ ~runtime
                         /\ created = 1 /\ destroyed = 1)
       /\ scen.B = 4 => (hooks = <<"voice-start", "voice-stop">> /\ ~runtime
                         /\ oplog = <<>> /\ created = 1 /\ destroyed = 1)

C10_Witness == scen.B = Len(ScenarioB) /\ pc = "loop" /\ oplog = <<>>

\* C11: started with a number of positional arguments other than three
\* (argc # 4), the daemon prints the usage message and returns 1 without
\* connecting to the bus, running a hook or creating a Runtime.
C11_UsageExit ==
    /\ (argc # 4 /\ pc # "main")
          => /\ pc = "exited"
             /\ usage
             /\ exit_status = 1
    /\ argc # 4
          => /\ ~conn
             /\ events = 0
             /\ hooks = <<>>
             /\ oplog = <<>>
             /\ created = 0
             /\ ~runtime
             /\ rt = "none"

\* Scenario C: two positional arguments, usage printed, status 1
C11_Witness == argc = 3 /\ pc = "exited" /\ usage /\ exit_status = 1 /\ ~conn

\* C12: while a session is being opened the context holds a Runtime only once
\* the hook and every step of create_runtime have succeeded; after a failed
\* hook, stream or spawn it holds none, complete or partial.
C12_NoPartialRuntime ==
    (ParsedStateChanged(msg) /\ old_state # new_state
        /\ is_mm_state_active(new_state) /\ ~had_runtime
        /\ oplog # StartOps)
    => (~runtime /\ created = destroyed)

\* the second helper failed to start: a half-built Runtime, not in the context
C12_Witness ==
    /\ pc = "aborted"
    /\ rt = "building"
    /\ procs[0] = "running"
    /\ procs[1] = "idle"
    /\ ~runtime

\* C13: a failed step is fatal. The loop never waits for a message with a
\* failed step behind it (no connection, an undecodable StateChanged, a hook,
\* open or close cut short), and once the daemon has aborted it takes no
\* further step: no message is popped and no step is tried again.
C13_FailureIsFatal ==
    /\ [](pc = "loop" =>
            /\ conn
            /\ (msg.iface = "call" /\ msg.member = "StateChanged")
                  => Len(msg.body) >= 2
            /\ VoiceCallAdded(msg) => oplog = <<"call-added", "hook_exit">>
            /\ (ParsedStateChanged(msg) /\ old_state # new_state
                  /\ is_mm_state_active(new_state) /\ ~had_runtime)
                  => oplog = StartOps
            /\ (ParsedStateChanged(msg) /\ is_mm_state_active(old_state)
                  /\ ~is_mm_state_active(new_state) /\ had_runtime)
                  => oplog = StopOps)
    /\ [][pc # "aborted"]_vars

\* the "voice-stop" hook failed while further messages could still arrive
C13_Witness ==
    /\ pc = "aborted"
    /\ events < MaxEvents
    /\ action = "voice-stop"
    /\ ~runtime

\* C14: in delete_runtime no device stream is released before both helpers
\* have been joined; when a join fails the streams stay as they were.
C14_JoinBeforeRelease ==
    /\ []((rt = "deleting" /\ \E k \in 0 .. 1 : procs[k] # "joined")
            => \A k \in 0 .. 1 : pcms[k] = "prepared")
    /\ [][ (\E k \in 0 .. 1 : pcms[k] # "closed" /\ pcms'[k] = "closed")
            => (\A k \in 0 .. 1 : procs[k] = "joined") ]_vars

\* the first join failed: second helper unjoined, both streams still held
C14_Witness ==
    /\ pc = "aborted"
    /\ rt = "deleting"
    /\ procs[0] = "running"
    /\ procs[1] = "running"
    /\ \A k \in 0 .. 1 : pcms[k] = "prepared"

\* the step pops a StateChanged signal of the call interface
PopsStateChanged ==
    Pops /\ msg'.iface = "call" /\ msg'.member = "StateChanged"

\* C15 (as stated): a StateChanged body that is not exactly two INT32s is a
\* fatal parse error: no hook, Runtime unchanged, no further event.
C15_ExactlyTwo ==
    /\ [][ (PopsStateChanged /\ Len(msg'.body) # 2)
            => (pc' = "aborted"
                /\ UNCHANGED << runtime, rt, pcms, procs, hooks, created,
                                destroyed >>) ]_vars
    /\ [][pc = "aborted" => events' = events]_vars

\* C15 (amended): a StateChanged body with fewer than two leading INT32s is a
\* fatal parse error: no hook, Runtime unchanged, no further event.
C15_MissingArgument ==
    /\ [][ (PopsStateChanged /\ Len(msg'.body) < 2)
            => (pc' = "aborted" /\ oplog' = <<>>
                /\ UNCHANGED << runtime, rt, pcms, procs, hooks, created,
                                destroyed >>) ]_vars
    /\ [][pc = "aborted" => (events' = events /\ msg' = msg)]_vars

\* a one-argument StateChanged stopped the daemon while a session was open
C15_Witness ==
    /\ pc = "aborted"
    /\ msg.iface = "call"
    /\ msg.member = "StateChanged"
    /\ Len(msg.body) = 1
    /\ runtime
    /\ events < MaxEvents

\* C16: a message that is neither (call, StateChanged) nor (modem-voice,
\* CallAdded) is ignored: no hook, Runtime unchanged, back to the loop.
C16_OthersIgnored ==
    [][ (/\ Pops
         /\ ~(msg'.iface = "call" /\ msg'.member = "StateChanged")
         /\ ~(msg'.iface = "modem_voice" /\ msg'.member = "CallAdded"))
        => (pc' = "loop" /\ oplog' = <<>>
            /\ UNCHANGED << runtime, rt, pcms, procs, hooks, created,
                            destroyed, old_state, new_state >>) ]_vars

\* CallAdded on the call interface was ignored while a session was open
C16_Witness ==
    /\ pc = "loop"
    /\ msg.iface = "call"
    /\ msg.member = "CallAdded"
    /\ runtime
    /\ oplog = <<>>

\* C17: in create_runtime the playback stream is touched only once the capture
\* stream is prepared, a helper is spawned only once both streams are
\* prepared, the source helper only after the sink helper, and the context
\* receives a Runtime only when all four steps succeeded; a create that
\* fails yields none.
C17_CreateOrder ==
    /\ [](rt = "building" =>
            /\ ~runtime
            /\ pcms[1] # "closed" => pcms[0] = "prepared"
            /\ (\E k \in 0 .. 1 : procs[k] # "idle")
                  => \A k \in 0 .. 1 : pcms[k] = "prepared"
            /\ procs[1] # "idle" => procs[0] = "running")
    /\ [][ (~runtime /\ runtime')
            => /\ \A k \in 0 .. 1 : pcms'[k] = "prepared"
               /\ \A k \in 0 .. 1 : procs'[k] = "running"
               /\ rt = "building"
               /\ created' = created + 1 ]_vars
    /\ [][ (rt = "building" /\ rt' # "building") => runtime' ]_vars

\* pcm_prepare of the playback stream failed: no helper spawned, no Runtime
C17_Witness ==
    /\ pc = "aborted"
    /\ rt = "building"
    /\ pcms[0] = "prepared"
    /\ pcms[1] = "open"
    /\ \A k \in 0 .. 1 : procs[k] = "idle"
    /\ ~runtime

\* C18: a message is popped only when the handling of the previous one is
\* over, its hook exited and its create or destroy finished; while the thread
\* waits for a hook or a helper to exit no message is popped, for as long as
\* the wait lasts.
C18_OneAtATime ==
    /\ [][ events' # events
            => /\ pc = "loop"
               /\ action = "none"
               /\ rt = "none"
               /\ oplog \in { <<>>, StartOps, StopOps,
                              <<"call-added", "hook_exit">> } ]_vars
    /\ [][ (pc = "hook_join" \/ pc = "pw_join")
            => (events' = events /\ msg' = msg) ]_vars

\* the thread waits for the "voice-start" hook while messages are pending
C18_Witness ==
    /\ pc = "hook_join"
    /\ action = "voice-start"
    /\ events >= 2
    /\ events < MaxEvents

\* the "voice-start" / "voice-stop" hooks run so far, in order
VoiceHooks == SelectSeq(hooks, LAMBDA h : h # "call-added")

\* C19: the "voice-start" and "voice-stop" hook runs alternate, beginning with
\* "voice-start", whatever the events and the outcomes of the fallible steps.
C19_HooksAlternate ==
    \A k \in 1 .. Len(VoiceHooks) :
        VoiceHooks[k] = IF k % 2 = 1 THEN "voice-start" ELSE "voice-stop"

\* start, stop, start again, with a "call-added" run in between
C19_Witness == Len(VoiceHooks) = 3 /\ Len(hooks) = 4

\* C20: between two events, with no Runtime in the context, no device stream
\* is open and no helper is running unjoined.
C20_NothingLeftOpen ==
    (pc = "loop" /\ ~runtime)
    => /\ rt = "none"
       /\ \A k \in 0 .. 1 : pcms[k] = "closed"
       /\ \A k \in 0 .. 1 : procs[k] # "running"

\* the loop waits for the next event after a session was closed
C20_Witness ==
    /\ pc = "loop"
    /\ ~runtime
    /\ created = 1
    /\ destroyed = 1
    /\ hooks = <<"voice-start", "voice-stop">>
    /\ events < MaxEvents

====
